---- MODULE Spec2Model ----
(***************************************************************************)
(* Model of the Cowrie dashboard's ingestion/aggregation engine:           *)
(*   ip_utils.py          BoundedCounter, BoundedSet                        *)
(*   cowrie_dashboard.py  CowrieMonitor (log tailer, update_stats,          *)
(*                        check_alerts, enrichment worker, stats cache)     *)
(*                                                                         *)
(* Python values are represented as follows.                               *)
(*   None / missing string field   the string "None"                        *)
(*   optional dict or number       a sequence of length 0 (absent) or 1     *)
(*   dict with insertion order     a sequence of [k, n] pairs               *)
(*   deque(maxlen)                 a sequence, oldest element first         *)
(* Timestamps and the city field are passed through by the code without    *)
(* being inspected and are left out of the records.                        *)
(***************************************************************************)
EXTENDS Integers, Sequences, FiniteSets, TLC

VARIABLES
    \* ---- CowrieMonitor fields (cowrie_dashboard.py 170-217)
    stats, alerts, alerted_ips, alerted_countries, alerted_orgs,
    running, last_position, last_inode,
    stats_cache, stats_cache_time, stats_dirty, enrich_queue,
    \* ---- monitor_logs / update_stats locals and the tailer's position
    tpc, file_handle, rotated, new_lines, entry,
    \* ---- _enrichment_worker locals and position
    wpc, wentry,
    \* ---- one external reader calling get_stats_summary
    rpc, rnow, rret,
    \* ---- stats_push_loop's position
    ppc,
    \* ---- a BoundedCounter on its own, with its capacity and the number of
    \* ---- distinct keys it was given, and what its last call returned
    bc, bc_cap, bc_keys, bc_ret,
    \* ---- a BoundedSet on its own, with its capacity and the items it was
    \* ---- given
    bs, bs_cap, bs_adds,
    \* ---- environment: the log file, the clock, the inputs still to come
    path_inode, files, now, budget, caller, next_id, fsops, ioerrs,
    \* ---- history (not program state): what was emitted / appended / seen
    fired, published, appended, delivered, handled, cache_partial, ret_info,
    \* ---- history: the summary of the last stats_update event
    pushed

vars == << stats, alerts, alerted_ips, alerted_countries, alerted_orgs,
           running, last_position, last_inode,
           stats_cache, stats_cache_time, stats_dirty, enrich_queue,
           tpc, file_handle, rotated, new_lines, entry,
           wpc, wentry, rpc, rnow, rret, ppc, bc, bc_cap, bc_keys, bc_ret,
           bs, bs_cap, bs_adds,
           path_inode, files, now, budget, caller, next_id, fsops, ioerrs,
           fired, published, appended, delivered, handled, cache_partial,
           ret_info, pushed >>

None == "None"

Max(a, b) == IF a >= b THEN a ELSE b

Min(a, b) == IF a <= b THEN a ELSE b

\* Python truthiness of an optional string (None and '' are falsy).
Truthy(s) == s # None /\ s # ""

(***************************************************************************)
(* Capacities.  The configured ones (dashboard_config.py) can be set from   *)
(* the environment; the model runs them, and the capacities the code       *)
(* hard-wires (10000 / 500 / 5000 alerted keys, 500 countries), at small    *)
(* values so that every collection fills up.                               *)
(***************************************************************************)
MAX_MAP_MARKERS == 2

MAX_RECENT_ATTACKS == 2

MAX_TIMELINE_ENTRIES == 2

MAX_ALERTS == 2

MAX_UNIQUE_IPS == 1

MAX_UNIQUE_PASSWORDS == 1

MAX_UNIQUE_USERS == 1

MAX_TOP_ENTRIES == 2

ENRICHMENT_QUEUE_SIZE == 1

CountriesMaxsize == 2

AlertedIpsMaxsize == 1

AlertedCountriesMaxsize == 1

AlertedOrgsMaxsize == 1

\* Program constants.
IpAlertThreshold == 10

CountryAlertThreshold == 20

OrgAlertThreshold == 15

LongPasswordLength == 20

TopLimit == 500

RecentLimit == 20

STATS_CACHE_TTL == 2

(***************************************************************************)
(* ip_utils.BoundedCounter: a dict, i.e. [k, n] pairs in insertion order.   *)
(***************************************************************************)
SelectIdx(s, keep) ==
    LET F[i \in 0..Len(s)] ==
            IF i = 0 THEN <<>>
            ELSE IF i \in keep THEN Append(F[i-1], s[i]) ELSE F[i-1]
    IN F[Len(s)]

BCKeys(c) == { c[i].k : i \in DOMAIN c }

BCGet(c, key) ==
    IF key \in BCKeys(c)
    THEN (CHOOSE p \in { c[i] : i \in DOMAIN c } : p.k = key).n
    ELSE 0

\* Position of entry i by insertion alone.
AscRankByInsertion(c, i) == Cardinality({ j \in DOMAIN c : j < i })

\* Position of entry i in sorted(self._data, key=self._data.get): ascending
\* count, and (the sort being stable over an insertion-ordered dict) the
\* earlier inserted first among equal counts.
AscRank(c, i) ==
    Cardinality({ j \in DOMAIN c :
                    c[j].n < c[i].n \/ (c[j].n = c[i].n /\ j < i) })

\* A tenth of the capacity, even when that is nothing.
EvictCountTenth(maxsize) == maxsize \div 10

EvictCount(maxsize) == Max(1, maxsize \div 10)

MaybeEvictNever(c, maxsize) == c

MaybeEvict(c, maxsize) ==
    IF Len(c) > maxsize
    THEN SelectIdx(c, { i \in DOMAIN c : AscRank(c, i) >= EvictCount(maxsize) })
    ELSE c

BCPut(c, key) ==
    IF key \in BCKeys(c)
    THEN [ i \in DOMAIN c |->
             IF c[i].k = key THEN [k |-> key, n |-> c[i].n + 1] ELSE c[i] ]
    ELSE Append(c, [k |-> key, n |-> 1])

BCIncrement(c, key, maxsize) == MaybeEvict(BCPut(c, key), maxsize)

\* Position of entry i in sorted(items, key=count, reverse=True): descending
\* count, insertion order among equal counts (reverse=True keeps stability).
DescRank(c, i) ==
    Cardinality({ j \in DOMAIN c :
                    c[j].n > c[i].n \/ (c[j].n = c[i].n /\ j < i) })

\* The first n entries as inserted.
BCTopAsInserted(c, n) ==
    LET m == Min(n, Len(c))
    IN [ r \in 1..m |-> c[r] ]

BCTop(c, n) ==
    LET m == Min(n, Len(c))
    IN [ r \in 1..m |-> c[CHOOSE i \in DOMAIN c : DescRank(c, i) = r - 1] ]

\* What a call on a counter returned: nothing yet, increment's count (47:
\* read before _maybe_evict runs), or top's entries.
NoRet == [ op |-> "none", key |-> 0, n |-> 0, value |-> <<>> ]

IncrementRet(c, key) ==
    [ op |-> "increment", key |-> key, n |-> BCGet(BCPut(c, key), key),
      value |-> <<>> ]

TopRet(c, n) == [ op |-> "top", key |-> 0, n |-> n, value |-> BCTop(c, n) ]

(***************************************************************************)
(* ip_utils.BoundedSet                                                      *)
(***************************************************************************)
EmptySet == [data |-> {}, overflow |-> 0]

\* add without the test for an item already stored.
BSAddNoMemberTest(s, item, maxsize) ==
    IF Cardinality(s.data) < maxsize
    THEN [s EXCEPT !.data = s.data \cup {item}]
    ELSE [s EXCEPT !.overflow = s.overflow + 1]

BSAdd(s, item, maxsize) ==
    IF item \in s.data THEN s
    ELSE IF Cardinality(s.data) < maxsize
         THEN [s EXCEPT !.data = s.data \cup {item}]
         ELSE [s EXCEPT !.overflow = s.overflow + 1]

BSContains(s, item) == item \in s.data

BSLen(s) == Cardinality(s.data)

BSTotalSeen(s) == Cardinality(s.data) + s.overflow

(***************************************************************************)
(* collections.deque(maxlen=...).append                                     *)
(***************************************************************************)
DequeAppend(q, x, maxlen) ==
    IF maxlen = 0 THEN q
    ELSE IF Len(q) >= maxlen THEN Append(Tail(q), x)
    ELSE Append(q, x)

(***************************************************************************)
(* Records.  A line of the log is written from a template: the JSON text    *)
(* (kind), the fields cowrie logs, and what the two lookup collaborators   *)
(* (GeoIPService / ASNService, not part of the engine) answer for it when  *)
(* update_stats enriches it inline: a result, nothing, or an exception.    *)
(***************************************************************************)
Connect == "cowrie.session.connect"

LoginFailed == "cowrie.login.failed"

LoginSuccess == "cowrie.login.success"

CommandInput == "cowrie.command.input"

SessionClosed == "cowrie.session.closed"

Unknown == "Unknown"

NoGeo == <<>>

NoAsn == <<>>

Geo(country, lat, lng) ==
    << [country |-> country, latitude |-> lat, longitude |-> lng] >>

Asn(org, asn) == << [organization |-> org, asn |-> asn] >>

\* len(password) of the passwords the templates use.
PasswordLen(p) ==
    CASE p = "pw21" -> 21
      [] p = "pw20" -> 20
      [] p = "pw6"  -> 6
      [] OTHER      -> 0

BaseTemplate ==
    [ kind |-> "record", eventid |-> Connect, src_ip |-> "a",
      username |-> None, password |-> None, input |-> None,
      geo |-> NoGeo, geo_raises |-> FALSE,
      asn |-> NoAsn, asn_raises |-> FALSE ]

Template(t) ==
    CASE t = "conn_a" ->
           [BaseTemplate EXCEPT !.src_ip = "a",
                                !.geo = Geo("X", <<5>>, <<7>>),
                                !.asn = Asn("O1", "AS1")]
      [] t = "conn_b" ->
           [BaseTemplate EXCEPT !.src_ip = "b",
                                !.geo = Geo("Y", <<0>>, <<7>>),
                                !.asn = Asn("O2", "AS2")]
      [] t = "conn_c" ->
           [BaseTemplate EXCEPT !.src_ip = "c"]
      [] t = "conn_asn" ->
           [BaseTemplate EXCEPT !.src_ip = "c",
                                !.geo = Geo(Unknown, <<>>, <<>>),
                                !.asn = Asn(None, "AS3")]
      [] t = "login_long" ->
           [BaseTemplate EXCEPT !.eventid = LoginSuccess, !.src_ip = "a",
                                !.username = "root", !.password = "pw21"]
      [] t = "login_20" ->
           [BaseTemplate EXCEPT !.eventid = LoginSuccess, !.src_ip = "b",
                                !.username = "admin", !.password = "pw20"]
      [] t = "login_fail" ->
           [BaseTemplate EXCEPT !.eventid = LoginFailed, !.src_ip = "c",
                                !.username = "admin", !.password = "pw6"]
      [] t = "login_nopw" ->
           [BaseTemplate EXCEPT !.eventid = LoginSuccess, !.src_ip = "c",
                                !.username = "root"]
      [] t = "login_fail_long" ->
           [BaseTemplate EXCEPT !.eventid = LoginFailed, !.src_ip = "c",
                                !.username = "root", !.password = "pw21"]
      [] t = "command" ->
           [BaseTemplate EXCEPT !.eventid = CommandInput, !.input = "ls"]
      [] t = "closed" ->
           [BaseTemplate EXCEPT !.eventid = SessionClosed,
                                !.geo = Geo("X", <<5>>, <<7>>)]
      [] t = "geo_raises" ->
           [BaseTemplate EXCEPT !.geo_raises = TRUE]
      [] t = "asn_raises" ->
           [BaseTemplate EXCEPT !.src_ip = "b", !.asn_raises = TRUE]
      [] t = "garbage" -> [BaseTemplate EXCEPT !.kind = "garbage"]
      [] t = "array" -> [BaseTemplate EXCEPT !.kind = "array"]
      [] t = "empty_object" -> [BaseTemplate EXCEPT !.kind = "empty_object"]
      [] t = "blank" -> [BaseTemplate EXCEPT !.kind = "blank"]

TemplateNames ==
    { "conn_a", "conn_b", "conn_c", "conn_asn", "login_long", "login_20",
      "login_fail", "login_nopw", "login_fail_long", "command", "closed", "geo_raises", "asn_raises",
      "garbage", "array", "empty_object", "blank" }

NoEntry == [ line |-> 0, t |-> None, eventid |-> None, src_ip |-> None,
             username |-> None, password |-> None, input |-> None,
             geo_location |-> NoGeo, asn_info |-> NoAsn ]

\* The dict json.loads returns for a line written from template t.
RawEntry(t, id) ==
    [ line |-> id, t |-> t, eventid |-> Template(t).eventid,
      src_ip |-> Template(t).src_ip, username |-> Template(t).username,
      password |-> Template(t).password, input |-> Template(t).input,
      geo_location |-> NoGeo, asn_info |-> NoAsn ]

\* update_stats 374-378: the two inline lookups annotate the entry.
EnrichRaises(e) == Template(e.t).geo_raises \/ Template(e.t).asn_raises

EnrichInline(e) ==
    [e EXCEPT !.geo_location = Template(e.t).geo, !.asn_info = Template(e.t).asn]

\* entry.get('geo_location', {}).get('country', 'Unknown')
CountryOf(e) ==
    IF e.geo_location = NoGeo THEN Unknown ELSE e.geo_location[1].country

\* entry.get('asn_info', {}).get('organization', 'Unknown')
OrgOrUnknown(e) ==
    IF e.asn_info = NoAsn THEN Unknown ELSE e.asn_info[1].organization

\* entry.get('asn_info', {}).get('organization')
OrgOf(e) == IF e.asn_info = NoAsn THEN None ELSE e.asn_info[1].organization

AsnOf(e) == IF e.asn_info = NoAsn THEN None ELSE e.asn_info[1].asn

LatOf(e) == IF e.geo_location = NoGeo THEN <<>> ELSE e.geo_location[1].latitude

LngOf(e) == IF e.geo_location = NoGeo THEN <<>> ELSE e.geo_location[1].longitude

\* Python truthiness of an optional number: None and 0 are falsy.
TruthyNum(x) == x # <<>> /\ x[1] # 0

(***************************************************************************)
(* The aggregate (self.stats) and the locked part of update_stats.          *)
(***************************************************************************)
InitStats ==
    [ total_connections |-> 0, failed_logins |-> 0,
      successful_logins |-> 0, commands_executed |-> 0,
      unique_ips |-> EmptySet, unique_passwords |-> EmptySet,
      unique_users |-> EmptySet,
      recent_attacks |-> <<>>,
      top_ips |-> <<>>, top_passwords |-> <<>>, top_users |-> <<>>,
      top_commands |-> <<>>,
      attack_timeline |-> <<>>,
      countries |-> <<>>, organizations |-> <<>>, asns |-> <<>>,
      markers |-> <<>>, heatpoints |-> <<>> ]

AttackEntry(e, event) ==
    [ ip |-> e.src_ip, event |-> event, country |-> CountryOf(e),
      organization |-> OrgOrUnknown(e), latitude |-> LatOf(e),
      longitude |-> LngOf(e), username |-> e.username,
      password |-> e.password ]

\* _process_login (230-267)
ProcessLogin(s, e, is_success) ==
    LET s1 == IF is_success
              THEN [s EXCEPT !.successful_logins = @ + 1]
              ELSE [s EXCEPT !.failed_logins = @ + 1]
        s2 == IF Truthy(e.password)
              THEN [s1 EXCEPT
                      !.unique_passwords =
                          BSAdd(@, e.password, MAX_UNIQUE_PASSWORDS),
                      !.top_passwords =
                          BCIncrement(@, e.password, MAX_TOP_ENTRIES)]
              ELSE s1
        s3 == IF Truthy(e.username)
              THEN [s2 EXCEPT
                      !.unique_users = BSAdd(@, e.username, MAX_UNIQUE_USERS),
                      !.top_users = BCIncrement(@, e.username, MAX_TOP_ENTRIES)]
              ELSE s2
    IN [s3 EXCEPT !.recent_attacks =
            DequeAppend(@, AttackEntry(e, IF is_success THEN "login.success"
                                                          ELSE "login.failed"),
                        MAX_RECENT_ATTACKS)]

\* The dispatch counting the address of a record of any other kind.
DispatchCountsAnyAddress(s, e) ==
    CASE e.eventid = Connect ->
           [s EXCEPT !.total_connections = @ + 1,
                     !.unique_ips = BSAdd(@, e.src_ip, MAX_UNIQUE_IPS),
                     !.top_ips = BCIncrement(@, e.src_ip, MAX_TOP_ENTRIES),
                     !.recent_attacks =
                         DequeAppend(@, AttackEntry(e, "connection"),
                                     MAX_RECENT_ATTACKS)]
      [] e.eventid = LoginFailed -> ProcessLogin(s, e, FALSE)
      [] e.eventid = LoginSuccess -> ProcessLogin(s, e, TRUE)
      [] e.eventid = CommandInput ->
           LET s1 == [s EXCEPT !.commands_executed = @ + 1]
           IN IF Truthy(e.input)
              THEN [s1 EXCEPT !.top_commands =
                                  BCIncrement(@, e.input, MAX_TOP_ENTRIES)]
              ELSE s1
      [] OTHER -> [s EXCEPT !.top_ips =
                                BCIncrement(@, e.src_ip, MAX_TOP_ENTRIES)]

\* update_stats 381-407: dispatch on the event id.
Dispatch(s, e) ==
    CASE e.eventid = Connect ->
           [s EXCEPT !.total_connections = @ + 1,
                     !.unique_ips = BSAdd(@, e.src_ip, MAX_UNIQUE_IPS),
                     !.top_ips = BCIncrement(@, e.src_ip, MAX_TOP_ENTRIES),
                     !.recent_attacks =
                         DequeAppend(@, AttackEntry(e, "connection"),
                                     MAX_RECENT_ATTACKS)]
      [] e.eventid = LoginFailed -> ProcessLogin(s, e, FALSE)
      [] e.eventid = LoginSuccess -> ProcessLogin(s, e, TRUE)
      [] e.eventid = CommandInput ->
           LET s1 == [s EXCEPT !.commands_executed = @ + 1]
           IN IF Truthy(e.input)
              THEN [s1 EXCEPT !.top_commands =
                                  BCIncrement(@, e.input, MAX_TOP_ENTRIES)]
              ELSE s1
      [] OTHER -> s

\* update_stats 409-428: map marker and heatpoint.
MapData(s, e) ==
    IF e.geo_location # NoGeo /\ TruthyNum(LatOf(e)) /\ TruthyNum(LngOf(e))
    THEN [s EXCEPT
            !.markers = DequeAppend(@,
                [ lat |-> LatOf(e), lng |-> LngOf(e), ip |-> e.src_ip,
                  country |-> CountryOf(e), event |-> e.eventid,
                  username |-> e.username, organization |-> OrgOrUnknown(e),
                  asn |-> IF e.asn_info = NoAsn THEN Unknown ELSE AsnOf(e) ],
                MAX_MAP_MARKERS),
            !.heatpoints = DequeAppend(@,
                [ lat |-> LatOf(e), lng |-> LngOf(e), intensity |-> 1 ],
                MAX_MAP_MARKERS)]
    ELSE s

\* update_stats 430-434
CountryStats(s, e) ==
    IF e.geo_location # NoGeo /\ CountryOf(e) # Unknown
    THEN [s EXCEPT !.countries = BCIncrement(@, CountryOf(e), CountriesMaxsize)]
    ELSE s

\* update_stats 436-443
OwnerStats(s, e) ==
    LET s1 == IF Truthy(OrgOf(e))
              THEN [s EXCEPT !.organizations =
                                 BCIncrement(@, OrgOf(e), MAX_TOP_ENTRIES)]
              ELSE s
    IN IF Truthy(AsnOf(e))
       THEN [s1 EXCEPT !.asns = BCIncrement(@, AsnOf(e), MAX_TOP_ENTRIES)]
       ELSE s1

\* update_stats 445-453
Timeline(s, e) ==
    [s EXCEPT !.attack_timeline = DequeAppend(@,
        [ event |-> e.eventid, ip |-> e.src_ip, country |-> CountryOf(e),
          organization |-> OrgOrUnknown(e), username |-> e.username ],
        MAX_TIMELINE_ENTRIES)]

\* The whole `with self._lock:` block of update_stats (380-455), but for
\* the dirty flag.
UpdateLocked(s, e) ==
    Timeline(OwnerStats(CountryStats(MapData(Dispatch(s, e), e), e), e), e)

(***************************************************************************)
(* check_alerts (269-304) and _add_alert (306-320).                         *)
(***************************************************************************)
Alert(level, text, key, e) ==
    [ level |-> level, message |-> <<text, key>>, ip |-> e.src_ip,
      country |-> CountryOf(e), organization |-> OrgOrUnknown(e) ]

\* The state check_alerts works on: the alert deque, the three
\* already-alerted sets, and (history) the alerts emitted, by rule.
AlertState(al, ips, ctr, orgs) ==
    [ alerts |-> al, alerted_ips |-> ips, alerted_countries |-> ctr,
      alerted_orgs |-> orgs, emitted |-> <<>> ]

\* _add_alert: append to the deque, publish.
AddAlert(a, rule, alert) ==
    [a EXCEPT !.alerts = DequeAppend(@, alert, MAX_ALERTS),
              !.emitted = Append(@, <<rule, alert.message[2]>>)]

\* The address rule with >= in place of >.
IpRuleAtThreshold(a, s, e) ==
    IF e.eventid = Connect /\ BCGet(s.top_ips, e.src_ip) >= IpAlertThreshold
       /\ ~BSContains(a.alerted_ips, e.src_ip)
    THEN AddAlert([a EXCEPT !.alerted_ips =
                                BSAdd(@, e.src_ip, AlertedIpsMaxsize)],
                  "ip",
                  Alert("HIGH", "High frequency attacks from", e.src_ip, e))
    ELSE a

\* 273-277
IpRule(a, s, e) ==
    IF e.eventid = Connect /\ BCGet(s.top_ips, e.src_ip) > IpAlertThreshold
       /\ ~BSContains(a.alerted_ips, e.src_ip)
    THEN AddAlert([a EXCEPT !.alerted_ips =
                                BSAdd(@, e.src_ip, AlertedIpsMaxsize)],
                  "ip", Alert("HIGH", "High frequency attacks from", e.src_ip, e))
    ELSE a

\* The password rule raising its alert once per address.
PasswordRuleOnce(a, s, e) ==
    IF e.eventid = LoginSuccess /\ Truthy(e.password)
       /\ PasswordLen(e.password) > LongPasswordLength
       /\ ~BSContains(a.alerted_ips, e.src_ip)
    THEN AddAlert([a EXCEPT !.alerted_ips =
                                BSAdd(@, e.src_ip, AlertedIpsMaxsize)],
                  "password",
                  Alert("MEDIUM", "Suspicious long password from", e.src_ip, e))
    ELSE a

\* 279-283
PasswordRule(a, s, e) ==
    IF e.eventid = LoginSuccess /\ Truthy(e.password)
       /\ PasswordLen(e.password) > LongPasswordLength
    THEN AddAlert(a, "password",
                  Alert("MEDIUM", "Suspicious long password from", e.src_ip, e))
    ELSE a

\* The country rule with >= in place of >.
CountryRuleAtThreshold(a, s, e) ==
    IF e.geo_location # NoGeo /\ CountryOf(e) # Unknown
       /\ BCGet(s.countries, CountryOf(e)) >= CountryAlertThreshold
       /\ ~BSContains(a.alerted_countries, CountryOf(e))
    THEN AddAlert([a EXCEPT !.alerted_countries =
                                BSAdd(@, CountryOf(e), AlertedCountriesMaxsize)],
                  "country",
                  Alert("MEDIUM", "High attack volume from", CountryOf(e), e))
    ELSE a

\* 285-294
CountryRule(a, s, e) ==
    IF e.geo_location # NoGeo /\ CountryOf(e) # Unknown
       /\ BCGet(s.countries, CountryOf(e)) > CountryAlertThreshold
       /\ ~BSContains(a.alerted_countries, CountryOf(e))
    THEN AddAlert([a EXCEPT !.alerted_countries =
                                BSAdd(@, CountryOf(e),
                    AlertedCountriesMaxsize)],
                  "country",
                  Alert("MEDIUM", "High attack volume from", CountryOf(e), e))
    ELSE a

\* 296-304
OrgRule(a, s, e) ==
    IF e.asn_info # NoAsn /\ Truthy(OrgOf(e))
       /\ BCGet(s.organizations, OrgOf(e)) > OrgAlertThreshold
       /\ ~BSContains(a.alerted_orgs, OrgOf(e))
    THEN AddAlert([a EXCEPT !.alerted_orgs =
                                BSAdd(@, OrgOf(e), AlertedOrgsMaxsize)],
                  "org", Alert("MEDIUM", "High attack volume from", OrgOf(e), e))
    ELSE a

CheckAlerts(a, s, e) ==
    OrgRule(CountryRule(PasswordRule(IpRule(a, s, e), s, e), s, e), s, e)

\* Number of alerts emitted so far, by <<rule, key>>.
FiredCount(f, m) == IF m \in DOMAIN f THEN f[m] ELSE 0

RECURSIVE CountAll(_, _)
CountAll(f, ms) ==
    IF ms = <<>> THEN f
    ELSE LET m == Head(ms)
             g == [ x \in DOMAIN f \cup {m} |->
                      IF x = m THEN FiredCount(f, m) + 1 ELSE f[x] ]
         IN CountAll(g, Tail(ms))

(***************************************************************************)
(* get_stats_summary (549-593).                                             *)
(***************************************************************************)
LastN(q, n) == IF Len(q) <= n THEN q ELSE SubSeq(q, Len(q) - n + 1, Len(q))

\* successful / max(1, total), not scaled.
SuccessRateUnscaled(s) ==
    [ num |-> s.successful_logins,
      den |-> Max(1, s.failed_logins + s.successful_logins) ]

\* (successful / max(1, total)) * 100, kept as the fraction it is.
SuccessRate(s) ==
    [ num |-> s.successful_logins * 100,
      den |-> Max(1, s.failed_logins + s.successful_logins) ]

Summary(s, al) ==
    [ total_connections |-> s.total_connections,
      failed_logins |-> s.failed_logins,
      successful_logins |-> s.successful_logins,
      commands_executed |-> s.commands_executed,
      unique_ips |-> BSLen(s.unique_ips),
      unique_passwords |-> BSLen(s.unique_passwords),
      unique_users |-> BSLen(s.unique_users),
      success_rate |-> SuccessRate(s),
      top_ips |-> BCTop(s.top_ips, TopLimit),
      top_passwords |-> BCTop(s.top_passwords, TopLimit),
      top_users |-> BCTop(s.top_users, TopLimit),
      top_commands |-> BCTop(s.top_commands, TopLimit),
      top_countries |-> BCTop(s.countries, TopLimit),
      top_organizations |-> BCTop(s.organizations, TopLimit),
      top_asns |-> BCTop(s.asns, TopLimit),
      recent_attacks |-> LastN(s.recent_attacks, RecentLimit),
      markers |-> s.markers,
      heatpoints |-> s.heatpoints,
      alerts |-> al ]

\* The cache test without the dirty flag.
CacheFreshIgnoresDirty(t) ==
    /\ stats_cache # <<>>
    /\ t - stats_cache_time < STATS_CACHE_TTL

\* 556-558: the cached summary is served.
CacheFresh(t) ==
    /\ stats_cache # <<>>
    /\ ~stats_dirty
    /\ t - stats_cache_time < STATS_CACHE_TTL

(***************************************************************************)
(* The log file as the tailer sees it.  A file is a sequence of bytes; a   *)
(* line written from template t with id i is the three bytes               *)
(* head(t,i) tail(t,i) newline, a blank line the newline alone.  The text  *)
(* parses only when head and tail of one line are read together.           *)
(***************************************************************************)
NL == [c |-> "nl", t |-> None, id |-> 0]

HeadByte(t, i) == [c |-> "h", t |-> t, id |-> i]

TailByte(t, i) == [c |-> "t", t |-> t, id |-> i]

LineBytes(t, i) ==
    IF Template(t).kind = "blank" THEN <<NL>>
    ELSE <<HeadByte(t, i), TailByte(t, i), NL>>

\* file.readlines(): the lines up to end of file, each with its newline,
\* and last whatever follows the final newline.
RECURSIVE ReadLines(_)
ReadLines(d) ==
    IF d = <<>> THEN <<>>
    ELSE IF \E k \in DOMAIN d : d[k] = NL
         THEN LET k == CHOOSE k \in DOMAIN d :
                           d[k] = NL /\ \A j \in 1..(k-1) : d[j] # NL
              IN <<SubSeq(d, 1, k)>> \o ReadLines(SubSeq(d, k + 1, Len(d)))
         ELSE <<d>>

\* line.strip()
Strip(line) == SelectSeq(line, LAMBDA b : b # NL)

Terminated(line) == line # <<>> /\ line[Len(line)] = NL

\* The text is one whole line as the writer wrote it.
WholeLine(line) ==
    /\ Len(Strip(line)) = 2
    /\ Strip(line)[1].c = "h" /\ Strip(line)[2].c = "t"
    /\ Strip(line)[1].id = Strip(line)[2].id

\* parse_log_entry without its isinstance(parsed, dict) test.
ParseNoTypeCheck(line) ==
    IF WholeLine(line)
       /\ Template(Strip(line)[1].t).kind \in {"record", "empty_object", "array"}
    THEN << RawEntry(Strip(line)[1].t, Strip(line)[1].id) >>
    ELSE <<>>

\* parse_log_entry (219-228): the dict, or None (here <<>>) for text that
\* is not JSON or is JSON but no object.
ParseLogEntry(line) ==
    IF WholeLine(line)
       /\ Template(Strip(line)[1].t).kind \in {"record", "empty_object"}
    THEN << RawEntry(Strip(line)[1].t, Strip(line)[1].id) >>
    ELSE <<>>

\* `if entry:` (526): an empty dict is falsy.
EntryTruthy(p) == p # <<>> /\ Template(p[1].t).kind # "empty_object"

(***************************************************************************)
(* Bounds of the model.                                                    *)
(***************************************************************************)
MaxInode == 2

MaxFsOps == 1

MaxLines == 2

MaxIoErrors == 1

MaxTime == 2

aggVars == << stats, alerts, alerted_ips, alerted_countries, alerted_orgs, fired >>

cacheVars == << stats_cache, stats_cache_time, stats_dirty, cache_partial >>

tailVars == << last_position, last_inode, file_handle, rotated, new_lines >>

workerVars == << wpc, wentry >>

readerVars == << rpc, rnow, rret, ret_info >>

pushVars == << ppc, pushed >>

counterVars == << bc, bc_cap, bc_keys, bc_ret >>

setVars == << bs, bs_cap, bs_adds >>

\* What only the readers, the push loop and the containers on their own
\* touch.
otherVars == << readerVars, pushVars, counterVars, setVars >>

fsVars == << path_inode, files, next_id, fsops, appended >>

InUpdate == tpc \in {"update_locked", "update_alerts", "update_enqueue"}

(***************************************************************************)
(* monitor_logs (495-547), one action per statement that touches the file   *)
(* or shared state.                                                        *)
(***************************************************************************)
\* 500-507: the loop test and the os.path.exists test.
TCheckExists ==
    /\ tpc = "loop" /\ running
    /\ IF path_inode = 0
       THEN /\ file_handle' = <<>>
            /\ tpc' = "loop"
       ELSE /\ tpc' = "detect"
            /\ UNCHANGED file_handle
    /\ UNCHANGED << aggVars, cacheVars, workerVars, otherVars, fsVars,
                    running, enrich_queue, last_position, last_inode, rotated,
                    new_lines, entry, now, budget, caller, ioerrs,
                    published, delivered, handled >>

\* monitor_logs leaving its loop without closing the handle.
TExitKeepsHandle ==
    /\ tpc = "loop" /\ ~running
    /\ tpc' = "done"
    /\ UNCHANGED << aggVars, cacheVars, workerVars, otherVars, fsVars,
                    running, enrich_queue, tailVars, entry,
                    now, budget, caller, ioerrs,
                    published, delivered, handled >>

\* 500, 545-547: the loop ends when running is false; the handle is closed.
TExit ==
    /\ tpc = "loop" /\ ~running
    /\ file_handle' = <<>>
    /\ tpc' = "done"
    /\ UNCHANGED << aggVars, cacheVars, workerVars, otherVars, fsVars,
                    running, enrich_queue, last_position, last_inode, rotated,
                    new_lines, entry, now, budget, caller, ioerrs,
                    published, delivered, handled >>

\* _detect_log_rotation without its inode comparison.
DetectLogRotationSizeOnly(ino, size, pos, last) ==
    IF ino = 0
    THEN [rotated |-> FALSE, last_position |-> pos, last_inode |-> last]
    ELSE IF size < pos
    THEN [rotated |-> TRUE, last_position |-> 0, last_inode |-> ino]
    ELSE [rotated |-> FALSE, last_position |-> pos, last_inode |-> ino]

\* _detect_log_rotation (468-493) on a file with inode ino and size bytes;
\* ino = 0 stands for os.stat raising OSError.
DetectLogRotation(ino, size, pos, last) ==
    IF ino = 0
    THEN [rotated |-> FALSE, last_position |-> pos, last_inode |-> last]
    ELSE IF size < pos
    THEN [rotated |-> TRUE, last_position |-> 0, last_inode |-> ino]
    ELSE IF last # 0 /\ ino # last
    THEN [rotated |-> TRUE, last_position |-> 0, last_inode |-> ino]
    ELSE [rotated |-> FALSE, last_position |-> pos, last_inode |-> ino]

FileSize(ino) == IF ino = 0 THEN 0 ELSE Len(files[ino])

\* 510
TDetect ==
    /\ tpc = "detect"
    /\ LET d == DetectLogRotation(path_inode, FileSize(path_inode),
                                  last_position, last_inode)
       IN /\ rotated' = d.rotated
          /\ last_position' = d.last_position
          /\ last_inode' = d.last_inode
    /\ tpc' = "open"
    /\ UNCHANGED << aggVars, cacheVars, workerVars, otherVars, fsVars,
                    running, enrich_queue, file_handle, new_lines, entry,
                    now, budget, caller, ioerrs, published, delivered,
                    handled >>

\* 513-517: open a handle on the file now at the path and seek.
TOpen ==
    /\ tpc = "open"
    /\ IF file_handle = <<>> \/ rotated
       THEN \/ /\ path_inode # 0
               /\ file_handle' = << [inode |-> path_inode, pos |-> last_position] >>
               /\ tpc' = "read"
               /\ UNCHANGED ioerrs
            \/ /\ path_inode = 0 \* FileNotFoundError
               /\ tpc' = "error"
               /\ UNCHANGED << file_handle, ioerrs >>
            \/ /\ path_inode # 0 /\ ioerrs < MaxIoErrors \* any other OSError
               /\ ioerrs' = ioerrs + 1
               /\ tpc' = "error"
               /\ UNCHANGED file_handle
       ELSE /\ tpc' = "read"
            /\ UNCHANGED << file_handle, ioerrs >>
    /\ UNCHANGED << aggVars, cacheVars, workerVars, otherVars, fsVars,
                    running, enrich_queue, last_position, last_inode, rotated,
                    new_lines, entry, now, budget, caller,
                    published, delivered, handled >>

\* What readlines() returns for file content d read from offset pos.
ReadFrom(d, pos) ==
    IF pos >= Len(d) THEN <<>> ELSE ReadLines(SubSeq(d, pos + 1, Len(d)))

\* 519-520: readlines() and tell().
TRead ==
    /\ tpc = "read"
    /\ \/ LET h == file_handle[1]
              d == files[h.inode]
          IN /\ new_lines' = ReadFrom(d, h.pos)
             /\ file_handle' = << [h EXCEPT !.pos = Max(h.pos, Len(d))] >>
             /\ last_position' = Max(h.pos, Len(d))
             /\ tpc' = "lines"
             /\ UNCHANGED ioerrs
       \/ /\ ioerrs < MaxIoErrors \* the read raises
          /\ ioerrs' = ioerrs + 1
          /\ tpc' = "error"
          /\ UNCHANGED << new_lines, file_handle, last_position >>
    /\ UNCHANGED << aggVars, cacheVars, workerVars, otherVars, fsVars,
                    running, enrich_queue, last_inode, rotated, entry,
                    now, budget, caller, published, delivered, handled >>

Seen(line) ==
    IF WholeLine(line) THEN delivered \cup {Strip(line)[1].id} ELSE delivered

\* History: the lines parse_log_entry returned a JSON object for, in the
\* order the loop took them.
Handled(line) ==
    IF ParseLogEntry(line) # <<>>
    THEN Append(handled, ParseLogEntry(line)[1].line) ELSE handled

\* 522-526: a blank line, or one parse_log_entry gives nothing for (or an
\* empty dict), is passed over.
TLineSkip ==
    /\ tpc = "lines" /\ new_lines # <<>>
    /\ LET line == Head(new_lines)
       IN /\ Strip(line) = <<>> \/ ~EntryTruthy(ParseLogEntry(line))
          /\ delivered' = Seen(line)
          /\ handled' = Handled(line)
    /\ new_lines' = Tail(new_lines)
    /\ UNCHANGED << aggVars, cacheVars, workerVars, otherVars, fsVars,
                    running, enrich_queue, last_position, last_inode,
                    file_handle, rotated, entry, tpc,
                    now, budget, caller, ioerrs, published >>

\* 527 and update_stats 371-378: the entry is handed to update_stats, which
\* first runs the two inline lookups; an exception of theirs is not caught
\* before monitor_logs' own handler (535).
TLineUpdate ==
    /\ tpc = "lines" /\ new_lines # <<>>
    /\ LET line == Head(new_lines)
           p == ParseLogEntry(line)
       IN /\ Strip(line) # <<>> /\ EntryTruthy(p)
          /\ delivered' = Seen(line)
          /\ handled' = Handled(line)
          /\ IF EnrichRaises(p[1])
             THEN /\ tpc' = "error"
                  /\ UNCHANGED entry
             ELSE /\ tpc' = "update_locked"
                  /\ entry' = EnrichInline(p[1])
    /\ new_lines' = Tail(new_lines)
    /\ UNCHANGED << aggVars, cacheVars, workerVars, otherVars, fsVars,
                    running, enrich_queue, last_position, last_inode,
                    file_handle, rotated,
                    now, budget, caller, ioerrs, published >>

\* 533: the batch is done; sleep and loop.
TLinesDone ==
    /\ tpc = "lines" /\ new_lines = <<>>
    /\ tpc' = "loop"
    /\ UNCHANGED << aggVars, cacheVars, workerVars, otherVars, fsVars,
                    running, enrich_queue, tailVars, entry,
                    now, budget, caller, ioerrs, published, delivered,
                    handled >>

\* The exception handler of monitor_logs leaving the loop instead.
TErrorExits ==
    /\ tpc = "error"
    /\ file_handle' = <<>>
    /\ new_lines' = <<>>
    /\ tpc' = "done"
    /\ UNCHANGED << aggVars, cacheVars, workerVars, otherVars, fsVars,
                    running, enrich_queue, last_position, last_inode, rotated,
                    entry, now, budget, caller, ioerrs, published, delivered,
                    handled >>

\* 535-543: any exception: close the handle, back off, loop.
TError ==
    /\ tpc = "error"
    /\ file_handle' = <<>>
    /\ new_lines' = <<>>
    /\ tpc' = "loop"
    /\ UNCHANGED << aggVars, cacheVars, workerVars, otherVars, fsVars,
                    running, enrich_queue, last_position, last_inode, rotated,
                    entry, now, budget, caller, ioerrs, published, delivered,
                    handled >>

(***************************************************************************)
(* update_stats (366-466) after the lookups.                                *)
(***************************************************************************)
\* 380-455: the block under self._lock.
UpdateStatsLocked ==
    /\ tpc = "update_locked"
    /\ stats' = UpdateLocked(stats, entry)
    /\ stats_dirty' = TRUE
    /\ tpc' = "update_alerts"
    /\ UNCHANGED << alerts, alerted_ips, alerted_countries, alerted_orgs, fired,
                    stats_cache, stats_cache_time, cache_partial,
                    workerVars, otherVars, fsVars, running, enrich_queue,
                    tailVars, entry, now, budget, caller, ioerrs,
                    published, delivered, handled >>

\* 458: check_alerts, after the lock is released.
UpdateStatsAlerts ==
    /\ tpc = "update_alerts"
    /\ LET a == CheckAlerts(AlertState(alerts, alerted_ips, alerted_countries,
                                       alerted_orgs), stats, entry)
       IN /\ alerts' = a.alerts
          /\ alerted_ips' = a.alerted_ips
          /\ alerted_countries' = a.alerted_countries
          /\ alerted_orgs' = a.alerted_orgs
          /\ fired' = CountAll(fired, a.emitted)
    /\ tpc' = "update_enqueue"
    /\ UNCHANGED << stats, cacheVars, workerVars, otherVars, fsVars, running,
                    enrich_queue, tailVars, entry, now, budget, caller, ioerrs,
                    published, delivered, handled >>

\* put_nowait whatever the entry's organization.
EnqueueAlways(q, e) ==
    IF Len(q) < ENRICHMENT_QUEUE_SIZE THEN Append(q, e) ELSE q

\* 460-466: put_nowait when the entry has no organization.
Enqueue(q, e) ==
    IF ~Truthy(OrgOf(e)) /\ Len(q) < ENRICHMENT_QUEUE_SIZE
    THEN Append(q, e) ELSE q

\* 460-466, and back in monitor_logs 528-531 the log_entry event.
UpdateStatsEnqueue ==
    /\ tpc = "update_enqueue"
    /\ enrich_queue' = Enqueue(enrich_queue, entry)
    /\ IF caller = "tailer"
       THEN /\ published' = Append(published, entry.line)
            /\ tpc' = "lines"
       ELSE /\ UNCHANGED published
            /\ tpc' = "driver"
    /\ UNCHANGED << aggVars, cacheVars, workerVars, otherVars, fsVars, running,
                    tailVars, entry, now, budget, caller, ioerrs, delivered,
                    handled >>

\* update_stats called directly with a record (no log file).
DriverUpdate ==
    /\ tpc = "driver"
    /\ \E t \in DOMAIN budget :
         /\ budget[t] > 0
         /\ Template(t).kind = "record"
         /\ budget' = [budget EXCEPT ![t] = @ - 1]
         /\ IF EnrichRaises(RawEntry(t, 0))
            THEN UNCHANGED << tpc, entry >>
            ELSE /\ entry' = EnrichInline(RawEntry(t, 0))
                 /\ tpc' = "update_locked"
    /\ UNCHANGED << aggVars, cacheVars, workerVars, otherVars, fsVars, running,
                    enrich_queue, tailVars, now, caller, ioerrs,
                    published, delivered, handled >>

(***************************************************************************)
(* _enrichment_worker (340-364) and _update_asn_stats (322-338).            *)
(***************************************************************************)
\* What the ownership lookup may answer when the worker asks again: nothing
\* new, a network number, or an organization and a network number.
AsyncResults(e) == { e.asn_info, Asn(None, "AS3"), Asn("O3", "AS3") }

\* 343-346: take a job and look it up; the lookup may raise.
WDequeue ==
    /\ wpc = "loop" /\ running
    /\ enrich_queue # <<>>
    /\ enrich_queue' = Tail(enrich_queue)
    /\ \/ \E r \in AsyncResults(Head(enrich_queue)) :
            /\ wentry' = [Head(enrich_queue) EXCEPT !.asn_info = r]
            /\ wpc' = "update"
       \/ /\ wentry' = Head(enrich_queue)
          /\ wpc' = "error"
    /\ UNCHANGED << aggVars, cacheVars, otherVars, fsVars, running, tailVars,
                    entry, tpc, now, budget, caller, ioerrs,
                    published, delivered, handled >>

\* _update_asn_stats counting the job as a connection as well.
UpdateAsnStatsCountsConnection(s, e) ==
    LET s1 == IF Truthy(OrgOf(e))
              THEN [s EXCEPT !.organizations =
                                 BCIncrement(@, OrgOf(e), MAX_TOP_ENTRIES)]
              ELSE s
    IN [s1 EXCEPT !.total_connections = @ + 1]

\* _update_asn_stats 327-338
UpdateAsnStats(s, e) ==
    LET s1 == IF Truthy(OrgOf(e))
              THEN [s EXCEPT !.organizations =
                                 BCIncrement(@, OrgOf(e), MAX_TOP_ENTRIES)]
              ELSE s
    IN IF Truthy(AsnOf(e))
       THEN [s1 EXCEPT !.asns = BCIncrement(@, AsnOf(e), MAX_TOP_ENTRIES)]
       ELSE s1

\* 347-356: _update_asn_stats, then the enriched_entry event.
WUpdate ==
    /\ wpc = "update"
    /\ IF wentry.asn_info = NoAsn
       THEN UNCHANGED << stats, stats_dirty >>
       ELSE /\ stats' = UpdateAsnStats(stats, wentry)
            /\ stats_dirty' = TRUE
    /\ wpc' = "loop"
    /\ wentry' = NoEntry
    /\ UNCHANGED << alerts, alerted_ips, alerted_countries, alerted_orgs, fired,
                    stats_cache, stats_cache_time, cache_partial,
                    otherVars, fsVars, running, enrich_queue, tailVars,
                    entry, tpc, now, budget, caller, ioerrs,
                    published, delivered, handled >>

\* The worker ending its loop on an exception.
WErrorStops ==
    /\ wpc = "error"
    /\ wpc' = "done"
    /\ wentry' = NoEntry
    /\ UNCHANGED << aggVars, cacheVars, otherVars, fsVars, running,
                    enrich_queue, tailVars, entry, tpc, now, budget, caller,
                    ioerrs, published, delivered, handled >>

\* 360-362: log, sleep, loop.
WError ==
    /\ wpc = "error"
    /\ wpc' = "loop"
    /\ wentry' = NoEntry
    /\ UNCHANGED << aggVars, cacheVars, otherVars, fsVars, running,
                    enrich_queue, tailVars, entry, tpc, now, budget, caller,
                    ioerrs, published, delivered, handled >>

\* 343, 364: the loop ends when running is false.
WExit ==
    /\ wpc = "loop" /\ ~running
    /\ wpc' = "done"
    /\ UNCHANGED << aggVars, cacheVars, otherVars, fsVars, running,
                    enrich_queue, tailVars, entry, tpc, wentry, now, budget,
                    caller, ioerrs, published, delivered, handled >>

\* stop (597-602)
Stop ==
    /\ running
    /\ running' = FALSE
    /\ UNCHANGED << aggVars, cacheVars, workerVars, otherVars, fsVars,
                    enrich_queue, tailVars, entry, tpc, now, budget, caller,
                    ioerrs, published, delivered, handled >>

(***************************************************************************)
(* get_stats_summary (549-593), called by a reader.                         *)
(***************************************************************************)
\* The aggregate shows the locked part of a record's update while the
\* alerts of that record are still to be appended.
MidUpdate ==
    /\ tpc = "update_alerts"
    /\ CheckAlerts(AlertState(alerts, alerted_ips, alerted_countries,
                              alerted_orgs), stats, entry).alerts # alerts

\* 553-559: read the clock; serve the cached summary if it is fresh.
GetStart ==
    /\ rpc = "idle"
    /\ rnow' = now
    /\ IF CacheFresh(now)
       THEN /\ rret' = stats_cache
            /\ rpc' = "ret"
            /\ ret_info' = [ cached |-> TRUE, in_update |-> InUpdate,
                             current |-> stats_cache[1] = Summary(stats, alerts),
                             partial |-> cache_partial ]
       ELSE /\ rpc' = "compute"
            /\ UNCHANGED << rret, ret_info >>
    /\ UNCHANGED << pushVars, counterVars, setVars, aggVars, cacheVars, workerVars,
                    fsVars, running,
                    enrich_queue, tailVars, entry, tpc, now, budget, caller,
                    ioerrs, published, delivered, handled >>

\* 561-593: compute under the lock, store, clear dirty, return.
GetCompute ==
    /\ rpc = "compute"
    /\ stats_cache' = << Summary(stats, alerts) >>
    /\ stats_cache_time' = rnow
    /\ stats_dirty' = FALSE
    /\ cache_partial' = MidUpdate
    /\ rret' = << Summary(stats, alerts) >>
    /\ ret_info' = [ cached |-> FALSE, in_update |-> InUpdate,
                     current |-> TRUE, partial |-> MidUpdate ]
    /\ rpc' = "ret"
    /\ UNCHANGED << pushVars, counterVars, setVars, aggVars, workerVars, fsVars,
                    running, enrich_queue,
                    tailVars, entry, tpc, rnow, now, budget, caller, ioerrs,
                    published, delivered, handled >>

\* The caller takes the summary.
GetReturn ==
    /\ rpc = "ret"
    /\ rpc' = "idle"
    /\ rret' = <<>>
    /\ ret_info' = [ cached |-> FALSE, in_update |-> FALSE,
                     current |-> TRUE, partial |-> FALSE ]
    /\ UNCHANGED << pushVars, counterVars, setVars, aggVars, cacheVars, workerVars,
                    fsVars, running,
                    enrich_queue, tailVars, entry, tpc, rnow, now, budget,
                    caller, ioerrs, published, delivered, handled >>

\* time.time() advances.
Tick ==
    /\ now < MaxTime
    /\ now' = now + 1
    /\ UNCHANGED << aggVars, cacheVars, workerVars, otherVars, fsVars, running,
                    enrich_queue, tailVars, entry, tpc, budget, caller, ioerrs,
                    published, delivered, handled >>

(***************************************************************************)
(* stats_push_loop (953-964): while running, push a summary to the clients *)
(* when the aggregate is dirty, then sleep.                                *)
(***************************************************************************)
\* 957-959: the loop test and the dirty test; a clean aggregate: sleep.
PCheck ==
    /\ ppc = "loop" /\ running
    /\ ppc' = IF stats_dirty THEN "get" ELSE "loop"
    /\ UNCHANGED << pushed, aggVars, cacheVars, workerVars, readerVars, counterVars, setVars,
                    fsVars, running, enrich_queue, tailVars, entry, tpc, now,
                    budget, caller, ioerrs, published, delivered, handled >>

\* 959-963: get_stats_summary (cached or computed under the lock), the
\* stats_update event (an exception of which is logged), sleep.
PGet ==
    /\ ppc = "get"
    /\ IF CacheFresh(now)
       THEN UNCHANGED cacheVars
       ELSE /\ stats_cache' = << Summary(stats, alerts) >>
            /\ stats_cache_time' = now
            /\ stats_dirty' = FALSE
            /\ cache_partial' = MidUpdate
    /\ pushed' = stats_cache'
    /\ ppc' = "loop"
    /\ UNCHANGED << aggVars, workerVars, readerVars, counterVars, setVars,
                    fsVars, running, enrich_queue, tailVars, entry, tpc, now,
                    budget, caller, ioerrs, published, delivered, handled >>

\* 957: the loop ends when running is false.
PExit ==
    /\ ppc = "loop" /\ ~running
    /\ ppc' = "done"
    /\ UNCHANGED << pushed, aggVars, cacheVars, workerVars, readerVars,
                    counterVars, setVars,
                    fsVars, running, enrich_queue, tailVars, entry, tpc, now,
                    budget, caller, ioerrs, published, delivered, handled >>

(***************************************************************************)
(* The writer of the log and whoever rotates it.                           *)
(***************************************************************************)
PathContent == files[path_inode]

\* The inode the tailer's open handle is on (0: no handle).
HandleInode == IF file_handle = <<>> THEN 0 ELSE file_handle[1].inode

EndsInPartial(d) == d # <<>> /\ d[Len(d)] # NL

\* A whole line is appended in one write.
WriteLine ==
    /\ tpc # "done" /\ next_id <= MaxLines
    /\ path_inode # 0 /\ ~EndsInPartial(PathContent)
    /\ \E t \in DOMAIN budget :
         /\ budget[t] > 0
         /\ budget' = [budget EXCEPT ![t] = @ - 1]
         /\ files' = [files EXCEPT ![path_inode] = @ \o LineBytes(t, next_id)]
         /\ appended' = IF Template(t).kind = "blank" THEN appended
                        ELSE appended \cup {next_id}
    /\ next_id' = next_id + 1
    /\ UNCHANGED << aggVars, cacheVars, workerVars, otherVars, running,
                    enrich_queue, tailVars, entry, tpc, now, caller, ioerrs,
                    path_inode, fsops, published, delivered, handled >>

\* The first part of a record's line is written (flushed) without the rest.
WritePartial ==
    /\ tpc # "done" /\ next_id <= MaxLines
    /\ path_inode # 0 /\ ~EndsInPartial(PathContent)
    /\ \E t \in DOMAIN budget :
         /\ budget[t] > 0 /\ Template(t).kind = "record"
         /\ budget' = [budget EXCEPT ![t] = @ - 1]
         /\ files' = [files EXCEPT ![path_inode] =
                                       Append(@, HeadByte(t, next_id))]
    /\ next_id' = next_id + 1
    /\ UNCHANGED << aggVars, cacheVars, workerVars, otherVars, running,
                    enrich_queue, tailVars, entry, tpc, now, caller, ioerrs,
                    path_inode, fsops, appended, published, delivered,
                    handled >>

\* The rest of that line and its newline are written.
WriteRest ==
    /\ tpc # "done"
    /\ path_inode # 0 /\ EndsInPartial(PathContent)
    /\ LET h == PathContent[Len(PathContent)]
       IN /\ files' = [files EXCEPT ![path_inode] =
                                        @ \o <<TailByte(h.t, h.id), NL>>]
          /\ appended' = appended \cup {h.id}
    /\ UNCHANGED << aggVars, cacheVars, workerVars, otherVars, running,
                    enrich_queue, tailVars, entry, tpc, now, budget, caller,
                    ioerrs, path_inode, next_id, fsops, published, delivered,
                    handled >>

\* The file is truncated in place (copytruncate rotation).
FsTruncate ==
    /\ tpc # "done"
    /\ path_inode # 0 /\ PathContent # <<>> /\ fsops < MaxFsOps
    /\ files' = [files EXCEPT ![path_inode] = <<>>]
    /\ fsops' = fsops + 1
    /\ UNCHANGED << aggVars, cacheVars, workerVars, otherVars, running,
                    enrich_queue, tailVars, entry, tpc, now, budget, caller,
                    ioerrs, path_inode, next_id, appended, published,
                    delivered, handled >>

\* The file is renamed away or deleted; an open handle keeps its content.
FsRemove ==
    /\ tpc # "done"
    /\ path_inode # 0 /\ fsops < MaxFsOps
    /\ path_inode' = 0
    /\ files' = IF HandleInode = path_inode
                THEN files ELSE [files EXCEPT ![path_inode] = <<>>]
    /\ fsops' = fsops + 1
    /\ UNCHANGED << aggVars, cacheVars, workerVars, otherVars, running,
                    enrich_queue, tailVars, entry, tpc, now, budget, caller,
                    ioerrs, next_id, appended, published, delivered, handled >>

\* A new, empty file appears at the path; it gets any inode number that is
\* not in use (a number freed earlier may come back).
FsCreate ==
    /\ tpc # "done"
    /\ path_inode = 0
    /\ \E i \in 1..MaxInode :
         /\ HandleInode # i
         /\ path_inode' = i
         /\ files' = [files EXCEPT ![i] = <<>>]
    /\ UNCHANGED << aggVars, cacheVars, workerVars, otherVars, running,
                    enrich_queue, tailVars, entry, tpc, now, budget, caller,
                    ioerrs, next_id, fsops, appended, published, delivered,
                    handled >>

(***************************************************************************)
(* Initial states and specifications.                                      *)
(***************************************************************************)
\* CowrieMonitor.__init__ (170-217), threads not yet in their loops.
InitProcess ==
    /\ stats = InitStats
    /\ alerts = <<>>
    /\ alerted_ips = EmptySet
    /\ alerted_countries = EmptySet
    /\ alerted_orgs = EmptySet
    /\ running = TRUE
    /\ last_position = 0
    /\ last_inode = 0
    /\ stats_cache = <<>>
    /\ stats_cache_time = 0
    /\ stats_dirty = TRUE
    /\ enrich_queue = <<>>
    /\ file_handle = <<>>
    /\ rotated = FALSE
    /\ new_lines = <<>>
    /\ entry = NoEntry
    /\ wpc = "loop"
    /\ wentry = NoEntry
    /\ rpc = "idle"
    /\ rnow = 0
    /\ rret = <<>>
    /\ now = 0
    /\ next_id = 1
    /\ fsops = 0
    /\ ioerrs = 0
    /\ fired = <<>>
    /\ published = <<>>
    /\ appended = {}
    /\ delivered = {}
    /\ cache_partial = FALSE
    /\ handled = <<>>
    /\ ppc = "loop"
    /\ pushed = <<>>
    /\ ret_info = [ cached |-> FALSE, in_update |-> FALSE,
                    current |-> TRUE, partial |-> FALSE ]
    /\ files = [ i \in 1..MaxInode |-> <<>> ]

\* The process with no counter of its own in use.
InitMonitor ==
    /\ InitProcess
    /\ bc = <<>>
    /\ bc_cap = MAX_TOP_ENTRIES
    /\ bc_keys = 0
    /\ bc_ret = NoRet
    /\ bs = EmptySet
    /\ bs_cap = MAX_UNIQUE_IPS
    /\ bs_adds = <<>>

Few == 1

Repeat == 22

\* The lines the writer will produce while the log is tailed.
TailBudget ==
    [ t \in {"conn_c", "geo_raises", "garbage", "array"} |-> Few ]

Init ==
    /\ InitMonitor
    /\ tpc = "loop"
    /\ caller = "tailer"
    /\ path_inode = 1
    /\ budget = TailBudget

TailerNext ==
    \/ TCheckExists \/ TExit \/ TDetect \/ TOpen \/ TRead
    \/ TLineSkip \/ TLineUpdate \/ TLinesDone \/ TError

UpdateNext == UpdateStatsLocked \/ UpdateStatsAlerts \/ UpdateStatsEnqueue

WorkerNext == WDequeue \/ WUpdate \/ WError \/ WExit

WriterNext ==
    WriteLine \/ WritePartial \/ WriteRest \/ FsTruncate \/ FsRemove \/ FsCreate

Next == TailerNext \/ UpdateNext \/ WorkerNext \/ WriterNext \/ Stop

Spec == Init /\ [][Next]_vars

(***************************************************************************)
(* update_stats driven directly, record after record, with the worker:     *)
(* enough records of one address / country / organization to pass the      *)
(* alert thresholds.                                                       *)
(***************************************************************************)
AlertsBudget ==
    [ t \in {"conn_a", "conn_b", "login_long"} |->
        IF t \in {"conn_a", "conn_b"} THEN Repeat ELSE Few ]

InitAlerts ==
    /\ InitMonitor
    /\ tpc = "driver"
    /\ caller = "driver"
    /\ path_inode = 0
    /\ budget = AlertsBudget

WorkerRun == WDequeue \/ WUpdate \/ WError

NextAlerts == DriverUpdate \/ UpdateNext \/ WorkerRun

SpecAlerts == InitAlerts /\ [][NextAlerts]_vars

(***************************************************************************)
(* C1.  Each address raises at most one "High frequency attacks" alert,     *)
(* each country and each organization at most one "High attack volume"     *)
(* alert, however many distinct keys have alerted.                         *)
(***************************************************************************)
AtMostOneAlertPerKey ==
    \A m \in DOMAIN fired :
        m[1] \in {"ip", "country", "org"} => fired[m] <= 1

(***************************************************************************)
(* C2.  No bounded collection is over its capacity: the frequency          *)
(* counters, the unique and already-alerted sets, the recency histories,   *)
(* the alert history and the enrichment queue.                             *)
(***************************************************************************)
WithinCapacity ==
    /\ \A c \in { stats.top_ips, stats.top_passwords, stats.top_users,
                  stats.top_commands, stats.organizations, stats.asns } :
          Len(c) <= MAX_TOP_ENTRIES
    /\ Len(stats.countries) <= CountriesMaxsize
    /\ BSLen(stats.unique_ips) <= MAX_UNIQUE_IPS
    /\ BSLen(stats.unique_passwords) <= MAX_UNIQUE_PASSWORDS
    /\ BSLen(stats.unique_users) <= MAX_UNIQUE_USERS
    /\ BSLen(alerted_ips) <= AlertedIpsMaxsize
    /\ BSLen(alerted_countries) <= AlertedCountriesMaxsize
    /\ BSLen(alerted_orgs) <= AlertedOrgsMaxsize
    /\ Len(stats.recent_attacks) <= MAX_RECENT_ATTACKS
    /\ Len(stats.attack_timeline) <= MAX_TIMELINE_ENTRIES
    /\ Len(stats.markers) <= MAX_MAP_MARKERS
    /\ Len(stats.heatpoints) <= MAX_MAP_MARKERS
    /\ Len(alerts) <= MAX_ALERTS
    /\ Len(enrich_queue) <= ENRICHMENT_QUEUE_SIZE

\* The organization counter has evicted counts (it holds fewer than were
\* counted), the unique-address set has overflowed, a second address,
\* country and organization have alerted with the already-alerted sets
\* full, and the alert and timeline histories are full.
CapacityReached ==
    /\ Len(stats.organizations) = MAX_TOP_ENTRIES
    /\ BCGet(stats.organizations, "O1") + BCGet(stats.organizations, "O2")
           < stats.total_connections
    /\ stats.unique_ips.overflow > 0
    /\ alerted_ips.overflow > 0
    /\ alerted_countries.overflow > 0
    /\ alerted_orgs.overflow > 0
    /\ Len(alerts) = MAX_ALERTS
    /\ Len(stats.attack_timeline) = MAX_TIMELINE_ENTRIES

(***************************************************************************)
(* update_stats driven directly while a reader calls get_stats_summary and *)
(* the clock advances.                                                     *)
(***************************************************************************)
GetBudget == [ t \in {"login_long", "conn_c"} |-> Few ]

InitGet ==
    /\ InitMonitor
    /\ tpc = "driver"
    /\ caller = "driver"
    /\ path_inode = 0
    /\ budget = GetBudget

ReaderNext == GetStart \/ GetCompute \/ GetReturn

NextGet == DriverUpdate \/ UpdateNext \/ WorkerRun \/ ReaderNext \/ Tick

SpecGet == InitGet /\ [][NextGet]_vars

(***************************************************************************)
(* C3.  A get_stats_summary call that starts when no update_stats call is  *)
(* in progress returns the summary of the aggregate and the alert history  *)
(* as they are at that moment: every effect of the updates that have       *)
(* returned, their alerts included, whatever the cache's age.              *)
(***************************************************************************)
GetAfterUpdateIsCurrent ==
    (rpc = "ret" /\ ~ret_info.in_update) => ret_info.current

(***************************************************************************)
(* C4.  No summary returned by get_stats_summary shows a record's update   *)
(* applied in part: its counters without the alert it raises.              *)
(***************************************************************************)
GetNeverPartial ==
    rpc = "ret" => ~ret_info.partial

(***************************************************************************)
(* The tailer has read the file now at the path to its end.                *)
(***************************************************************************)
CaughtUp ==
    /\ tpc = "loop"
    /\ path_inode # 0
    /\ HandleInode = path_inode
    /\ last_inode = path_inode
    /\ file_handle[1].pos = Len(PathContent)
    /\ last_position = Len(PathContent)
    /\ ~EndsInPartial(PathContent)

\* The complete lines the file at the path holds.
LinesInFile ==
    { PathContent[k].id :
        k \in { j \in DOMAIN PathContent : PathContent[j].c = "t" } }

(***************************************************************************)
(* C5.  At least once: when the tailer has read the log to its end, every  *)
(* complete line that was appended to the log has been handed to parsing.  *)
(* Stated here for the appended lines the file still holds, those no       *)
(* truncation or replacement took away before the tailer could read them.  *)
(***************************************************************************)
EveryLineDelivered ==
    CaughtUp => (appended \cap LinesInFile) \subseteq delivered

\* The step is one of monitor_logs' own.
TailerStep == tpc' # tpc \/ new_lines' # new_lines

\* What _detect_log_rotation is to find: the file is shorter than the saved
\* offset, or is not the file last seen.
ShrankOrReplaced ==
    /\ path_inode # 0
    /\ \/ FileSize(path_inode) < last_position
       \/ last_inode # 0 /\ path_inode # last_inode

(***************************************************************************)
(* C6.  A poll that finds the file shorter than the saved offset, or with  *)
(* another inode than the last known, sets the offset to 0 and marks the   *)
(* poll rotated; a rotated poll opens a new handle at offset 0 on the file *)
(* at the path and its read returns that file's lines from the start.      *)
(***************************************************************************)
RotationRereads ==
    [][ /\ (tpc = "detect" /\ tpc' = "open" /\ ShrankOrReplaced)
             => (rotated' /\ last_position' = 0 /\ last_inode' = path_inode)
        /\ (tpc = "open" /\ tpc' = "read" /\ rotated)
             => file_handle' = << [inode |-> path_inode, pos |-> 0] >>
        /\ (tpc = "read" /\ tpc' = "lines" /\ rotated)
             => /\ file_handle[1].pos = 0
                /\ new_lines' = ReadLines(files[file_handle[1].inode])
                /\ last_position' = Len(files[file_handle[1].inode]) ]_vars

\* A rotated poll has read lines from the start of the new content.
RotatedPollRead ==
    /\ tpc = "lines" /\ rotated
    /\ new_lines # <<>>
    /\ last_position = Len(new_lines[1])

(***************************************************************************)
(* C7.  A poll never takes a line that has no terminator: every line       *)
(* readlines() hands to the loop ends in a newline.                        *)
(***************************************************************************)
OnlyTerminatedLinesRead ==
    \A i \in DOMAIN new_lines : Terminated(new_lines[i])

\* The line is text that is not JSON (a line cut short included) or JSON
\* that is no object.
Malformed(line) ==
    /\ Strip(line) # <<>>
    /\ \/ ~WholeLine(line)
       \/ Template(Strip(line)[1].t).kind \in {"garbage", "array"}

HeadEnrichRaises ==
    /\ tpc = "lines" /\ new_lines # <<>>
    /\ Strip(Head(new_lines)) # <<>>
    /\ EntryTruthy(ParseLogEntry(Head(new_lines)))
    /\ EnrichRaises(ParseLogEntry(Head(new_lines))[1])

(***************************************************************************)
(* C9.  When an inline lookup of update_stats raises, the exception stays  *)
(* inside update_stats: the record goes on un-annotated to the locked      *)
(* update, and the rest of the batch stays to be processed.                *)
(***************************************************************************)
EnrichFailureTolerated ==
    [][ (HeadEnrichRaises /\ TailerStep)
        => /\ tpc' = "update_locked"
           /\ entry' = ParseLogEntry(Head(new_lines))[1]
           /\ new_lines' = Tail(new_lines) ]_vars

(***************************************************************************)
(* C10.  While running is true neither loop has ended; from its exception  *)
(* handler the tailer goes back to the top of its loop with the handle     *)
(* closed, and the worker goes back to wait for the next job.              *)
(***************************************************************************)
LoopsSurviveErrors ==
    [][ /\ running' => (tpc' # "done" /\ wpc' # "done")
        /\ (tpc = "error" /\ tpc' # tpc)
             => (tpc' = "loop" /\ file_handle' = <<>>)
        /\ (wpc = "error" /\ wpc' # wpc) => wpc' = "loop" ]_vars

\* After an I/O error the tailer is processing lines again, and the worker
\* is in its exception handler, with running still true.
RunningAfterErrors ==
    /\ running
    /\ ioerrs > 0 /\ tpc = "lines" /\ delivered # {}
    /\ wpc = "error"

(***************************************************************************)
(* The three background threads of start_monitoring, the log's writer and  *)
(* stop.  Each thread is scheduled again and again: weak fairness on its   *)
(* steps.                                                                  *)
(***************************************************************************)
PushNext == PCheck \/ PGet \/ PExit

\* The lines the writer will produce: a record the worker is asked about,
\* and a line that does not parse.
LiveBudget == [ t \in {"conn_c", "garbage"} |-> Few ]

InitLive ==
    /\ InitMonitor
    /\ tpc = "loop"
    /\ caller = "tailer"
    /\ path_inode = 1
    /\ budget = LiveBudget

NextLive ==
    \/ TailerNext \/ UpdateNext \/ WorkerNext \/ PushNext
    \/ WriteLine \/ FsRemove \/ FsCreate
    \/ Stop

SpecLive ==
    /\ InitLive /\ [][NextLive]_vars
    /\ WF_vars(TailerNext \/ UpdateNext)
    /\ WF_vars(WorkerNext)
    /\ WF_vars(PushNext)

(***************************************************************************)
(* C11.  Once running is false, the tailer loop, the enrichment worker     *)
(* loop and the push loop all come to their end, and the tailer's file     *)
(* handle is closed when its loop has ended.                               *)
(***************************************************************************)
LoopsExitAfterStop ==
    ~running ~> (tpc = "done" /\ wpc = "done" /\ ppc = "done"
                   /\ file_handle = <<>>)

\* All three loops have ended after stop, the tailer having read the log.
AllLoopsExited ==
    /\ ~running
    /\ tpc = "done" /\ wpc = "done" /\ ppc = "done"
    /\ file_handle = <<>>
    /\ last_position > 0

(***************************************************************************)
(* update_stats fed the records of one address, with the worker.           *)
(***************************************************************************)
OneAddressBudget ==
    [ t \in {"conn_a", "login_long"} |-> IF t = "conn_a" THEN Repeat ELSE Few ]

InitOneAddress ==
    /\ InitMonitor
    /\ tpc = "driver"
    /\ caller = "driver"
    /\ path_inode = 0
    /\ budget = OneAddressBudget

SpecOneAddress == InitOneAddress /\ [][NextAlerts]_vars

\* The connect events of address "a" that check_alerts has been run for.
ConnectsChecked ==
    IF tpc = "update_alerts" /\ entry.eventid = Connect
    THEN BCGet(stats.top_ips, "a") - 1
    ELSE BCGet(stats.top_ips, "a")

(***************************************************************************)
(* C12.  Connect events of one address: none of the first 10 raises the    *)
(* "High frequency attacks" alert, the 11th raises it, and the 12th and    *)
(* later raise no more: the alerts of that kind number 0 up to the 10th    *)
(* event and 1 from the 11th on.                                           *)
(***************************************************************************)
OneAlertOnEleventh ==
    FiredCount(fired, <<"ip", "a">>) = IF ConnectsChecked >= 11 THEN 1 ELSE 0

\* Twelve connect events and more have been processed.
TwelfthConnectDone ==
    /\ tpc = "driver"
    /\ BCGet(stats.top_ips, "a") >= 12
    /\ FiredCount(fired, <<"ip", "a">>) = 1

(***************************************************************************)
(* update_stats fed login records: successes with a password of 21 and of  *)
(* 20 characters and with none, and a failure with 21 characters.          *)
(***************************************************************************)
MaxLogins == 2

LoginsBudget ==
    [ t \in {"login_long", "login_20", "login_nopw", "login_fail_long"} |->
        IF t = "login_long" THEN MaxLogins ELSE Few ]

InitLogins ==
    /\ InitMonitor
    /\ tpc = "driver"
    /\ caller = "driver"
    /\ path_inode = 0
    /\ budget = LoginsBudget

SpecLogins == InitLogins /\ [][NextAlerts]_vars

\* The 21-character successful logins check_alerts has been run for.
LongLoginsChecked ==
    (MaxLogins - budget["login_long"])
      - (IF tpc \in {"update_locked", "update_alerts"}
            /\ entry.t = "login_long" THEN 1 ELSE 0)

(***************************************************************************)
(* C13.  Each successful login with a password longer than 20 characters   *)
(* raises one "Suspicious long password" alert, the n-th as the first;     *)
(* a successful login with 20 characters or without password, and a failed *)
(* login, raise none.                                                      *)
(***************************************************************************)
LongPasswordAlertEach ==
    /\ FiredCount(fired, <<"password", "a">>) = LongLoginsChecked
    /\ FiredCount(fired, <<"password", "b">>) = 0
    /\ FiredCount(fired, <<"password", "c">>) = 0

\* Two long-password logins of one address have raised two alerts, and the
\* other logins have been processed.
TwoLongPasswordAlerts ==
    /\ tpc = "driver"
    /\ FiredCount(fired, <<"password", "a">>) = 2
    /\ stats.successful_logins >= 4 /\ stats.failed_logins >= 1

\* The keys an alert can be about.
AlertKeys == {"a", "b", "c", "X", "Y", "O1", "O2", "O3", Unknown, None}

\* The step emits an alert of the rule about key k.
NewAlert(rule, k) ==
    FiredCount(fired', <<rule, k>>) > FiredCount(fired, <<rule, k>>)

(***************************************************************************)
(* C14.  A "High attack volume" alert about a country (organization) is    *)
(* emitted only by check_alerts on a record that carries that country      *)
(* (organization), not "Unknown", and only with that key's counter above   *)
(* 20 (15); an address alert only with the address counter above 10.  A    *)
(* counter at 10, 20 or 15 fires nothing.                                  *)
(***************************************************************************)
StrictThresholds ==
    [][ \A k \in AlertKeys :
          /\ NewAlert("country", k)
               => /\ tpc = "update_alerts" /\ entry.geo_location # NoGeo
                  /\ k = entry.geo_location[1].country /\ k # "Unknown"
                  /\ BCGet(stats.countries, k) > 20
          /\ NewAlert("org", k)
               => /\ tpc = "update_alerts" /\ entry.asn_info # NoAsn
                  /\ k = entry.asn_info[1].organization /\ k # None
                  /\ BCGet(stats.organizations, k) > 15
          /\ NewAlert("ip", k)
               => /\ tpc = "update_alerts" /\ k = entry.src_ip
                  /\ BCGet(stats.top_ips, k) > 10 ]_vars

\* The country alert has been emitted by the 21st record of the country and
\* the organization alert by the 16th of the organization.
VolumeAlertsEmitted ==
    /\ tpc = "update_enqueue"
    /\ BCGet(stats.countries, "X") = 21
    /\ FiredCount(fired, <<"country", "X">>) = 1
    /\ FiredCount(fired, <<"org", "O1">>) = 1

(***************************************************************************)
(* C15.  get_stats_summary returns the stored summary, and leaves the      *)
(* cache as it is, exactly when a summary is stored, the dirty flag is     *)
(* clear and the summary is less than 2 seconds old; otherwise it computes *)
(* the summary of the aggregate, stores it with the time the call read,    *)
(* clears the dirty flag and returns it.                                   *)
(***************************************************************************)
CachedIffFresh ==
    [][ /\ (rpc = "idle" /\ rpc' # "idle")
             => /\ rpc' = "ret"
                   <=> (stats_cache # <<>> /\ ~stats_dirty
                          /\ now - stats_cache_time < 2)
                /\ rpc' = "ret" => rret' = stats_cache
                /\ rnow' = now
                /\ UNCHANGED << stats_cache, stats_cache_time, stats_dirty >>
        /\ (rpc = "compute" /\ rpc' # "compute")
             => /\ rpc' = "ret"
                /\ rret' = << Summary(stats, alerts) >>
                /\ stats_cache' = rret'
                /\ stats_cache_time' = rnow
                /\ ~stats_dirty' ]_vars

\* A second call, later and within the TTL, was served the stored summary.
ServedFromCache ==
    /\ rpc = "ret" /\ ret_info.cached
    /\ rret = stats_cache
    /\ now > stats_cache_time

(***************************************************************************)
(* update_stats fed records for which the inline ownership lookup answers  *)
(* a network number without organization, nothing, or both, with the       *)
(* worker.                                                                 *)
(***************************************************************************)
AsnBudget == [ t \in {"conn_asn", "conn_c", "conn_a"} |-> Few ]

InitAsn ==
    /\ InitMonitor
    /\ tpc = "driver"
    /\ caller = "driver"
    /\ path_inode = 0
    /\ budget = AsnBudget

SpecAsn == InitAsn /\ [][NextAlerts]_vars

\* All the counts a BoundedCounter holds.
RECURSIVE SumCounts(_)
SumCounts(c) == IF c = <<>> THEN 0 ELSE Head(c).n + SumCounts(Tail(c))

(***************************************************************************)
(* C16.  No record is counted twice: the organization counter and the      *)
(* network-number counter each hold at most one count per record that      *)
(* update_stats has applied (every record here is a connect).              *)
(***************************************************************************)
NoDoubleCounting ==
    /\ SumCounts(stats.organizations) <= stats.total_connections
    /\ SumCounts(stats.asns) <= stats.total_connections

\* The record update_stats is working on has no organization.
EntryWithoutOrg ==
    IF entry.asn_info = <<>> THEN TRUE
    ELSE entry.asn_info[1].organization = None

(***************************************************************************)
(* C17.  At its end update_stats puts the record on the enrichment queue   *)
(* exactly when the record has no organization and the queue has room;     *)
(* with the queue full the record is dropped.  Either way update_stats     *)
(* returns, and the aggregate keeps the record's updates.                  *)
(***************************************************************************)
EnqueueWhenNoOrg ==
    [][ (tpc = "update_enqueue" /\ tpc' # tpc)
        => /\ enrich_queue' =
                 IF EntryWithoutOrg /\ Len(enrich_queue) < ENRICHMENT_QUEUE_SIZE
                 THEN Append(enrich_queue, entry)
                 ELSE enrich_queue
           /\ tpc' \in {"driver", "lines"}
           /\ UNCHANGED << stats, alerts >> ]_vars

\* update_stats is about to enqueue a record without organization, its
\* updates applied, and the queue is full.
QueueFullAtEnqueue ==
    /\ tpc = "update_enqueue"
    /\ EntryWithoutOrg
    /\ Len(enrich_queue) = ENRICHMENT_QUEUE_SIZE
    /\ stats.total_connections >= 2

\* The steps taken inside a "with self._lock:" block: update_stats 380-455,
\* _update_asn_stats 331-338, get_stats_summary 561-591 (by a reader or by
\* the push loop).
LockHeldStep ==
    \/ tpc = "update_locked" /\ tpc' = "update_alerts"
    \/ wpc = "update" /\ wpc' = "loop"
    \/ rpc = "compute" /\ rpc' = "ret"
    \/ ppc = "get" /\ ppc' = "loop"

(***************************************************************************)
(* C18.  Every step that changes the aggregate (its counters, sets and     *)
(* histories, the alert history, the dirty flag) is a step taken while     *)
(* holding the aggregate's lock.                                           *)
(***************************************************************************)
MutatedOnlyUnderLock ==
    [][ (stats' # stats \/ alerts' # alerts \/ stats_dirty' # stats_dirty)
        => LockHeldStep ]_vars

(***************************************************************************)
(* The tailer over a log that holds records and empty JSON objects.        *)
(***************************************************************************)
OrderBudget == [ t \in {"conn_c", "empty_object"} |-> Few ]

InitOrder ==
    /\ InitMonitor
    /\ tpc = "loop"
    /\ caller = "tailer"
    /\ path_inode = 1
    /\ budget = OrderBudget

SpecOrder == InitOrder /\ [][Next]_vars

\* The tailer is between two lines: not inside update_stats, not in its
\* exception handler.
BetweenLines ==
    tpc \notin {"update_locked", "update_alerts", "update_enqueue", "error"}

(***************************************************************************)
(* C19.  Between two lines, the log_entry events published so far are the  *)
(* lines read so far that parsed to a JSON object: one event each, in the  *)
(* order the tailer read them.                                             *)
(***************************************************************************)
PublishedInTailOrder == BetweenLines => published = handled

(***************************************************************************)
(* A BoundedCounter of some capacity, given distinct new keys, one         *)
(* increment each.                                                         *)
(***************************************************************************)
MaxCap == 21

MaxKeys == 25

\* increment (44-50) of a key the counter has never been given.
CounterIncrement ==
    /\ bc_keys < MaxKeys
    /\ bc_keys' = bc_keys + 1
    /\ bc' = BCIncrement(bc, bc_keys + 1, bc_cap)
    /\ bc_ret' = IncrementRet(bc, bc_keys + 1)
    /\ UNCHANGED << bc_cap, setVars, aggVars, cacheVars, workerVars, readerVars,
                    pushVars, fsVars, running, enrich_queue, tailVars, entry,
                    tpc, now, budget, caller, ioerrs, published, delivered,
                    handled >>

InitCounter ==
    /\ InitProcess
    /\ tpc = "driver"
    /\ caller = "driver"
    /\ path_inode = 0
    /\ budget = [ t \in {"conn_c"} |-> 0 ]
    /\ bc = <<>>
    /\ bc_cap \in 1..MaxCap
    /\ bc_keys = 0
    /\ bc_ret = NoRet
    /\ bs = EmptySet
    /\ bs_cap = MAX_UNIQUE_IPS
    /\ bs_adds = <<>>

NextCounter == CounterIncrement

SpecCounter == InitCounter /\ [][NextCounter]_vars

\* The step is the insert of a new key into a counter holding exactly its
\* capacity.
TriggeringInsert == Len(bc) = bc_cap /\ bc_keys' = bc_keys + 1

(***************************************************************************)
(* C20.  As stated: the counter never holds more than its capacity C, and  *)
(* right after the insert that made it exceed C it holds                   *)
(* C - max(1, C div 10) keys.                                              *)
(***************************************************************************)
SettlesBelowCapacity ==
    [][ /\ Len(bc') <= bc_cap
        /\ TriggeringInsert => Len(bc') = bc_cap - Max(1, bc_cap \div 10) ]_vars

(***************************************************************************)
(* C20, amended.  The counter never holds more than its capacity C, and    *)
(* right after the insert that made it exceed C it holds                   *)
(* C + 1 - max(1, C div 10) keys: the eviction removes max(1, C div 10) of *)
(* the C + 1 keys then present.                                            *)
(***************************************************************************)
SettlesAfterEviction ==
    [][ /\ Len(bc') <= bc_cap
        /\ TriggeringInsert
           => Len(bc') = bc_cap + 1 - Max(1, bc_cap \div 10) ]_vars

\* A counter of capacity 20 right after its 21st key: two keys evicted.
EvictedTwoOfTwentyOne ==
    /\ bc_cap = 20
    /\ bc_keys = 21
    /\ Len(bc) = 19

(***************************************************************************)
(* A BoundedCounter of some capacity under increments of new keys, further *)
(* increments of its first keys, and top.                                  *)
(***************************************************************************)
HotKeys == 2

MaxCount == 3

MaxTopN == 3

\* increment (44-50) of one of the first keys again, tracked or evicted.
CounterIncrementAgain ==
    /\ \E key \in 1..Min(HotKeys, bc_keys) :
         /\ BCGet(bc, key) < MaxCount
         /\ bc' = BCIncrement(bc, key, bc_cap)
         /\ bc_ret' = IncrementRet(bc, key)
    /\ UNCHANGED << bc_cap, bc_keys, setVars, aggVars, cacheVars, workerVars,
                    readerVars, pushVars, fsVars, running, enrich_queue,
                    tailVars, entry, tpc, now, budget, caller, ioerrs,
                    published, delivered, handled >>

\* top (80-83)
CounterTop ==
    /\ \E n \in 0..MaxTopN : bc_ret' = TopRet(bc, n)
    /\ UNCHANGED << bc, bc_cap, bc_keys, setVars, aggVars, cacheVars, workerVars,
                    readerVars, pushVars, fsVars, running, enrich_queue,
                    tailVars, entry, tpc, now, budget, caller, ioerrs,
                    published, delivered, handled >>

NextCounterOps == CounterIncrement \/ CounterIncrementAgain \/ CounterTop

SpecCounterOps == InitCounter /\ [][NextCounterOps]_vars

\* The (key, count) pairs a counter tracks.
Tracked(c) == { c[i] : i \in DOMAIN c }

(***************************************************************************)
(* C21.  What top(n) returned, the counter unchanged since: min(n, size)   *)
(* distinct tracked (key, count) pairs, in non-increasing count order, and *)
(* no pair left out has a greater count than a returned one.               *)
(***************************************************************************)
TopIsSortedPrefix ==
    bc_ret.op = "top" =>
        LET v == bc_ret.value
        IN /\ Len(v) = Min(bc_ret.n, Len(bc))
           /\ \A i \in DOMAIN v : v[i] \in Tracked(bc)
           /\ \A i, j \in DOMAIN v : i < j => v[i].n >= v[j].n /\ v[i].k # v[j].k
           /\ \A e \in Tracked(bc) \ { v[i] : i \in DOMAIN v } :
                 \A i \in DOMAIN v : e.n <= v[i].n

\* top(2) returned two pairs of different counts and left one out.
TopLeftOneOut ==
    /\ bc_ret.op = "top"
    /\ bc_ret.n = 2
    /\ Len(bc) = 3
    /\ Len(bc_ret.value) = 2
    /\ bc_ret.value[1].n > bc_ret.value[2].n
    /\ bc[1].n < bc[2].n

\* The step is an increment of key k.
IncrementOf(k) ==
    /\ bc_ret'.op = "increment"
    /\ bc_ret'.key = k
    /\ counterVars' # counterVars

\* The count of key k right after the increment, before any eviction.
CountPut(k) == BCGet(bc, k) + 1

\* The count of key e among the keys present when _maybe_evict runs in an
\* increment of k.
CountAtEvict(e, k) == IF e = k THEN CountPut(k) ELSE BCGet(bc, e)

(***************************************************************************)
(* C24.  An increment that leaves the counter over its capacity evicts     *)
(* exactly max(1, capacity div 10) keys, none of which had a count above   *)
(* that of a key that stays; an increment that does not leave it over      *)
(* capacity evicts nothing.                                                *)
(***************************************************************************)
EvictsLowestCounts ==
    [][ \A k \in 1..MaxKeys :
          IncrementOf(k) =>
            LET present == BCKeys(bc) \cup {k}
                evicted == present \ BCKeys(bc')
            IN /\ BCKeys(bc') \subseteq present
               /\ IF Cardinality(present) > bc_cap
                  THEN /\ Cardinality(evicted) = Max(1, bc_cap \div 10)
                       /\ \A e \in evicted : \A r \in BCKeys(bc') :
                             CountAtEvict(e, k) <= CountAtEvict(r, k)
                  ELSE evicted = {} ]_vars

\* A counter of capacity 20 right after its 21st key came in, two keys of
\* count 1 evicted and a key of a higher count kept.
EvictedTwoLowest ==
    /\ bc_cap = 20
    /\ Len(bc) = 19
    /\ bc_ret.op = "increment"
    /\ bc_ret.key = 21
    /\ BCGet(bc, 1) = 3
    /\ BCGet(bc, 2) = 0

(***************************************************************************)
(* C29.  After increment(key) returned n, and until the next change of the *)
(* counter, the key is tracked with count n.                               *)
(***************************************************************************)
IncrementedKeyTracked ==
    bc_ret.op = "increment" => BCGet(bc, bc_ret.key) = bc_ret.n

(***************************************************************************)
(* A BoundedSet of some capacity under add.                                *)
(***************************************************************************)
MaxSetCap == 3

MaxAdds == 4

Items == { "a", "b", "c" }

\* add (97-104)
SetAdd ==
    /\ Len(bs_adds) < MaxAdds
    /\ \E item \in Items :
         /\ bs' = BSAdd(bs, item, bs_cap)
         /\ bs_adds' = Append(bs_adds, item)
    /\ UNCHANGED << bs_cap, counterVars, aggVars, cacheVars, workerVars,
                    readerVars, pushVars, fsVars, running, enrich_queue,
                    tailVars, entry, tpc, now, budget, caller, ioerrs,
                    published, delivered, handled >>

InitSet ==
    /\ InitProcess
    /\ tpc = "driver"
    /\ caller = "driver"
    /\ path_inode = 0
    /\ budget = [ t \in {"conn_c"} |-> 0 ]
    /\ bc = <<>>
    /\ bc_cap = MAX_TOP_ENTRIES
    /\ bc_keys = 0
    /\ bc_ret = NoRet
    /\ bs = EmptySet
    /\ bs_cap \in 1..MaxSetCap
    /\ bs_adds = <<>>

NextSet == SetAdd

SpecSet == InitSet /\ [][NextSet]_vars

\* The step is add(item).
AddOf(item) == bs_adds' = Append(bs_adds, item)

\* The item the set was last given.
LastAdded == bs_adds[Len(bs_adds)]

(***************************************************************************)
(* C22.  add is idempotent: add(item) right after add(item) leaves the     *)
(* set (stored members, overflow count, and so total_seen) as the first    *)
(* add left it.                                                            *)
(***************************************************************************)
AddIsIdempotent ==
    [][ \A item \in Items :
          (bs_adds # <<>> /\ AddOf(item)) =>
             (LastAdded = item =>
                /\ bs' = bs
                /\ BSTotalSeen(bs') = BSTotalSeen(bs)) ]_vars

\* The items of the claim's example, in the order they are added.
ExampleAdds == << "a", "b", "c", "a" >>

(***************************************************************************)
(* C23.  add(item): an item already stored changes nothing; a new item     *)
(* with room left is stored and the overflow count stays; a new item with  *)
(* the set at capacity leaves the members alone and adds exactly 1 to the  *)
(* overflow count.  With capacity 2, adding a, b, c, a gives size 2,       *)
(* total_seen 3 and c not contained.                                       *)
(***************************************************************************)
AddFollowsReference ==
    [][ \A item \in Items :
          AddOf(item) =>
            /\ IF item \in bs.data
               THEN bs' = bs
               ELSE IF Cardinality(bs.data) < bs_cap
                    THEN /\ bs'.data = bs.data \cup {item}
                         /\ bs'.overflow = bs.overflow
                    ELSE /\ bs'.data = bs.data
                         /\ bs'.overflow = bs.overflow + 1
            /\ (bs_cap = 2 /\ bs_adds' = ExampleAdds)
                  => /\ BSLen(bs') = 2
                     /\ BSTotalSeen(bs') = 3
                     /\ ~BSContains(bs', "c") ]_vars

\* The example's four adds are done on a set of capacity 2.
ExampleAdded ==
    /\ bs_cap = 2
    /\ bs_adds = ExampleAdds
    /\ bs.overflow = 1

\* The step is one of the enrichment worker's.
WorkerStep == wpc' # wpc \/ wentry' # wentry

(***************************************************************************)
(* C25.  A step of the enrichment worker changes, of the aggregate, only   *)
(* the organization counter, the network-number counter and the dirty      *)
(* flag: every other field of the statistics, the alert history and the    *)
(* already-alerted sets stay as they were and no alert is emitted.         *)
(***************************************************************************)
WorkerTouchesOwnershipOnly ==
    [][ WorkerStep =>
          /\ [stats' EXCEPT !.organizations = stats.organizations,
                            !.asns = stats.asns] = stats
          /\ UNCHANGED << alerts, alerted_ips, alerted_countries,
                          alerted_orgs, fired >> ]_vars

\* The worker has counted an organization and a network number that only
\* its lookup answers, and has set the dirty flag.
WorkerCounted ==
    /\ BCGet(stats.organizations, "O3") >= 1
    /\ BCGet(stats.asns, "AS3") >= 1
    /\ stats_dirty
    /\ wpc = "loop"

(***************************************************************************)
(* update_stats fed one record of each kind: connects with coordinates,    *)
(* with latitude 0 and with a geolocation without coordinates, a failed    *)
(* and a successful login, a command, and a session-closed record.         *)
(***************************************************************************)
KindsBudget ==
    [ t \in {"conn_a", "conn_b", "conn_asn", "login_fail", "login_20",
             "command", "closed"} |-> Few ]

InitKinds ==
    /\ InitMonitor
    /\ tpc = "driver"
    /\ caller = "driver"
    /\ path_inode = 0
    /\ budget = KindsBudget

SpecKinds == InitKinds /\ [][NextAlerts]_vars

\* The step is the locked block of update_stats.
LockedBlockStep == tpc = "update_locked" /\ tpc' = "update_alerts"

\* q2 is the bounded history q after one append: the entries of q, less the
\* oldest when q was full, then one more.
AppendedOne(q, q2, maxlen) ==
    /\ q2 # <<>>
    /\ SubSeq(q2, 1, Len(q2) - 1) = IF Len(q) >= maxlen THEN Tail(q) ELSE q

Counted(b) == IF b THEN 1 ELSE 0

(***************************************************************************)
(* C26.  The locked block of update_stats adds 1 to total connections for  *)
(* a connect record, to failed (successful) logins for a login-failed      *)
(* (login-succeeded) record, to commands executed for a command record,    *)
(* and to no other of these four; a record of any other kind leaves the    *)
(* four, the unique sets and the address, password, username and command   *)
(* counters as they were.  Whatever the kind, one timeline entry for the   *)
(* record is appended and the dirty flag is set.                           *)
(***************************************************************************)
DispatchByKind ==
    [][ LockedBlockStep =>
          /\ stats'.total_connections =
                stats.total_connections + Counted(entry.eventid = Connect)
          /\ stats'.failed_logins =
                stats.failed_logins + Counted(entry.eventid = LoginFailed)
          /\ stats'.successful_logins =
                stats.successful_logins + Counted(entry.eventid = LoginSuccess)
          /\ stats'.commands_executed =
                stats.commands_executed + Counted(entry.eventid = CommandInput)
          /\ entry.eventid \notin {Connect, LoginFailed, LoginSuccess,
                                    CommandInput}
                => /\ stats'.unique_ips = stats.unique_ips
                   /\ stats'.unique_passwords = stats.unique_passwords
                   /\ stats'.unique_users = stats.unique_users
                   /\ stats'.top_ips = stats.top_ips
                   /\ stats'.top_passwords = stats.top_passwords
                   /\ stats'.top_users = stats.top_users
                   /\ stats'.top_commands = stats.top_commands
          /\ AppendedOne(stats.attack_timeline, stats'.attack_timeline,
                         MAX_TIMELINE_ENTRIES)
          /\ LET last == stats'.attack_timeline[Len(stats'.attack_timeline)]
             IN last.event = entry.eventid /\ last.ip = entry.src_ip
          /\ stats_dirty' ]_vars

\* A session-closed record has just been applied after a command and a
\* failed login.
ClosedApplied ==
    /\ tpc = "update_alerts"
    /\ entry.eventid = SessionClosed
    /\ stats.commands_executed = 1
    /\ stats.failed_logins = 1
    /\ stats.attack_timeline[Len(stats.attack_timeline)].event = SessionClosed
    /\ stats_dirty

\* The record update_stats is working on has a geolocation with both a
\* latitude and a longitude.
HasCoordinates ==
    /\ entry.geo_location # NoGeo
    /\ LatOf(entry) # <<>>
    /\ LngOf(entry) # <<>>

(***************************************************************************)
(* C27.  The locked block of update_stats appends one map marker and one   *)
(* heatpoint of intensity 1, at the record's coordinates, when the         *)
(* record's geolocation has a latitude and a longitude, whatever their     *)
(* values (0 included), and leaves markers and heatpoints alone otherwise. *)
(***************************************************************************)
MarkerForEveryCoordinate ==
    [][ LockedBlockStep =>
          IF HasCoordinates
          THEN /\ AppendedOne(stats.markers, stats'.markers, MAX_MAP_MARKERS)
               /\ AppendedOne(stats.heatpoints, stats'.heatpoints,
                              MAX_MAP_MARKERS)
               /\ LET mk == stats'.markers[Len(stats'.markers)]
                      hp == stats'.heatpoints[Len(stats'.heatpoints)]
                  IN /\ mk.lat = LatOf(entry) /\ mk.lng = LngOf(entry)
                     /\ mk.ip = entry.src_ip
                     /\ hp.lat = LatOf(entry) /\ hp.lng = LngOf(entry)
                     /\ hp.intensity = 1
          ELSE /\ stats'.markers = stats.markers
               /\ stats'.heatpoints = stats.heatpoints ]_vars

(***************************************************************************)
(* update_stats fed a successful and a failed login while a reader calls   *)
(* get_stats_summary.                                                      *)
(***************************************************************************)
RateBudget == [ t \in {"login_long", "login_fail"} |-> Few ]

InitRate ==
    /\ InitMonitor
    /\ tpc = "driver"
    /\ caller = "driver"
    /\ path_inode = 0
    /\ budget = RateBudget

SpecRate == InitRate /\ [][NextGet]_vars

\* The fraction r, as num / den, equals a / b.
RateIs(r, a, b) == r.num * b = a * r.den

(***************************************************************************)
(* C28.  As stated: the success rate of every computed summary is          *)
(* succeeded / max(1, succeeded + failed): 0 with no login recorded, 1     *)
(* when every recorded login succeeded, never above 1.                     *)
(***************************************************************************)
SuccessRateIsRatio ==
    stats_cache # <<>> =>
        LET c == stats_cache[1]
            total == c.successful_logins + c.failed_logins
        IN /\ RateIs(c.success_rate, c.successful_logins, Max(1, total))
           /\ total = 0 => RateIs(c.success_rate, 0, 1)
           /\ (total > 0 /\ c.failed_logins = 0)
                 => RateIs(c.success_rate, 1, 1)
           /\ c.success_rate.num <= c.success_rate.den

(***************************************************************************)
(* C28, amended.  The success rate of every computed summary is the        *)
(* percentage 100 * succeeded / max(1, succeeded + failed): 0 with no      *)
(* login recorded, 100 when every recorded login succeeded, never above    *)
(* 100.                                                                    *)
(***************************************************************************)
SuccessRateIsPercentage ==
    stats_cache # <<>> =>
        LET c == stats_cache[1]
            total == c.successful_logins + c.failed_logins
        IN /\ RateIs(c.success_rate, 100 * c.successful_logins, Max(1, total))
           /\ total = 0 => RateIs(c.success_rate, 0, 1)
           /\ (total > 0 /\ c.failed_logins = 0)
                 => RateIs(c.success_rate, 100, 1)
           /\ c.success_rate.num <= 100 * c.success_rate.den

\* A summary computed after one successful and one failed login: 50.
HalfSucceeded ==
    /\ stats_cache # <<>>
    /\ stats_cache[1].successful_logins = 1
    /\ stats_cache[1].failed_logins = 1
    /\ RateIs(stats_cache[1].success_rate, 50, 1)

(***************************************************************************)
(* update_stats fed records with the worker thread scheduled fairly and    *)
(* the running flag left true.                                             *)
(***************************************************************************)
SpecJobs == InitAsn /\ [][NextAlerts]_vars /\ WF_vars(WorkerRun)

\* The worker has taken the job of template t off the queue and looked it
\* up (the lookup answered or raised).
LookedUp(t) == wentry.t = t /\ wpc \in {"update", "error"}

\* The job of template t is at the head of the queue.
AtHead(t) ==
    IF enrich_queue = <<>> THEN FALSE ELSE Head(enrich_queue).t = t

(***************************************************************************)
(* C30.  The queue changes only by update_stats appending a job and by the *)
(* worker taking the job at its head and looking it up, so no job is       *)
(* looked up twice or lost; and with running true and the worker scheduled *)
(* fairly, every job in the queue is eventually taken and looked up, also  *)
(* after an earlier job's lookup raised.                                   *)
(***************************************************************************)
JobsLookedUpOnce ==
    /\ [][ enrich_queue' # enrich_queue =>
             \/ /\ tpc = "update_enqueue"
                /\ enrich_queue' = Append(enrich_queue, entry)
             \/ /\ wpc = "loop"
                /\ enrich_queue' = Tail(enrich_queue)
                /\ wentry'.t = Head(enrich_queue).t
                /\ wpc' \in {"update", "error"} ]_vars
    /\ \A t \in {"conn_asn", "conn_c"} :
          AtHead(t) ~> (LookedUp(t) \/ ~running)

\* The worker has looked up one job while the next accepted one waits.
JobLookedUpNextWaiting ==
    /\ LookedUp("conn_c")
    /\ AtHead("conn_asn")

(***************************************************************************)
(* update_stats fed a record, with the worker, a reader calling            *)
(* get_stats_summary, the clock, and the push loop scheduled fairly; the   *)
(* running flag is left true.                                              *)
(***************************************************************************)
PushBudget == [ t \in {"conn_c"} |-> Few ]

InitPush ==
    /\ InitMonitor
    /\ tpc = "driver"
    /\ caller = "driver"
    /\ path_inode = 0
    /\ budget = PushBudget

PushRun == PCheck \/ PGet

NextPush ==
    DriverUpdate \/ UpdateNext \/ WorkerRun \/ ReaderNext \/ Tick \/ PushRun

SpecPush == InitPush /\ [][NextPush]_vars /\ WF_vars(PushRun)

\* The last stats_update event carried the summary of the aggregate as it
\* is now.
PushedCurrent == pushed = << Summary(stats, alerts) >>

(***************************************************************************)
(* C31.  Once update_stats or the worker has changed the aggregate, the    *)
(* push loop, scheduled fairly and with running true, eventually publishes *)
(* a stats_update with a summary computed after the latest change: the     *)
(* summary of the aggregate as it then is, whatever get_stats_summary      *)
(* calls readers made in between.                                          *)
(***************************************************************************)
ChangeEventuallyPushed == (stats # InitStats) ~> PushedCurrent

====
